---- MODULE Spec2Model ----
(***************************************************************************)
(* Flask-Sitemap: the Sitemap extension object (flask_sitemap/__init__.py). *)
(*                                                                         *)
(* Python values are modelled as follows.                                  *)
(*   - a str that ends up in a record (a URL path, a resolved URL) is a    *)
(*     sequence of text fragments; the empty str is <<>>.                  *)
(*   - an endpoint / generator / configuration name is a TLA+ string.      *)
(*   - a dict of URL values is a set of <<key, value>> pairs.              *)
(*   - a configuration value is the set of the strings it holds; None,     *)
(*     False and [] are the empty set (all are falsy and the code only     *)
(*     tests truthiness or builds set(value or [])).                       *)
(*   - a result dict is a function from the keys it holds to their values. *)
(***************************************************************************)
EXTENDS Naturals, Sequences, FiniteSets

VARIABLES
    extensions,      \* app.extensions: "noattr" (no attribute), "empty", or who is
                     \* installed under 'sitemap': "self" (this Sitemap) or "other"
    config,          \* app.config: a function from the keys that are set
    url_map,         \* app.url_map: the rules, in iter_rules() order
    self_app,        \* self.app: "unset" until init_app assigns it, then "app"
    url_generators,  \* self.url_generators: generator names, in list order
    registered,      \* history: arguments of the register_generator calls, in call order
    body,            \* generator name -> the items calling that function yields
    lastInit,        \* history: how the last init_app call ended
    pc,              \* position of the _generate_all_urls generator object
    ignore,          \* local `ignore` of the run
    kwargs,          \* local `kwargs` of the run
    genIdx,          \* index in url_generators of the generator being iterated
    inner,           \* the inner generator object of line 120: "none", a registered
                     \* generator ("user"), or _routes_without_params before
                     \* ("created") and after ("looping") its first next()
    pending,         \* items a registered inner generator has still to yield
    ruleIter,        \* rules the iterator of line 106 has still to give
    tableAtIter,     \* history: the routing table when line 106 called iter_rules()
    pulled,          \* history: [gen, cand] per candidate pulled from a generator
    emitted,         \* history: the records yielded to the consumer, in order
    ctxHeld,         \* request contexts the run holds
    acquires,        \* history: times the run entered test_request_context()
    resolutions,     \* history: times the run called url_for
    error            \* exception that ended the run, or "none"

vars == <<extensions, config, url_map, self_app, url_generators, registered, body,
          lastInit, pc, ignore, kwargs, genIdx, inner, pending,
          ruleIter, tableAtIter, pulled, emitted, ctxHeld, acquires,
          resolutions, error>>

appVars == <<extensions, config, url_map>>
instVars == <<self_app, url_generators, registered>>
initVars == <<lastInit>>
runVars == <<pc, ignore, kwargs, genIdx, inner, pending, ruleIter, tableAtIter, pulled,
             emitted, ctxHeld, acquires, resolutions, error>>

---------------------------------------------------------------------------
(* Bounds of the model. *)

\* items in the body of a freely composed user generator, at most
MaxYield == 2
\* register_generator calls, at most
MaxRegister == 2

---------------------------------------------------------------------------
(* Small Python helpers. *)

EmptyDict == [k \in {} |-> <<>>]

\* d[k] = v on a result dict
SetItem(d, k, v) == [x \in (DOMAIN d) \cup {k} |-> IF x = k THEN v ELSE d[x]]

Keys(m) == {p[1] : p \in m}

\* values.update(kw) on a dict of URL values
DictUpdate(m, kw) == {p \in m : p[1] \notin Keys(kw)} \cup kw

\* generated[a:] on a sequence (0-based a), clipped as Python slices are
SliceFrom(s, a) == IF a >= Len(s) THEN <<>> ELSE SubSeq(s, a + 1, Len(s))

\* generated[0:b]
SliceTo(s, b) == IF b >= Len(s) THEN s ELSE SubSeq(s, 1, b)

Truthy(v) == v # {}

\* the single string a configuration value holds, or dflt when it is None
ConfigStr(v, dflt) == IF v = {} THEN dflt ELSE CHOOSE x \in v : TRUE

---------------------------------------------------------------------------
(* Candidates a generator may yield (isinstance dispatch of lines 122-132). *)

StrCand(s) == [kind |-> "str", str |-> s, map |-> {}, elems |-> <<>>]
MapCand(m) == [kind |-> "map", str |-> <<>>, map |-> m, elems |-> <<>>]
SeqCand(e) == [kind |-> "seq", str |-> <<>>, map |-> {}, elems |-> e]
\* the generator function raises instead of yielding
RaiseItem == [kind |-> "raise", str |-> <<>>, map |-> {}, elems |-> <<>>]

NoValues == {}
IdValues == {<<"id", "3">>}

DefaultGenerator == "_routes_without_params"
UserGenerators == {"news", "blog"}

\* one candidate of every shape: str (empty, a path, a str that spells an
\* endpoint name), Mapping, and sequences of 0..6 elements
Strings == {<<>>, <<"/about">>, <<"news">>}
Candidates ==
    {StrCand(s) : s \in Strings}
    \cup {MapCand(IdValues), MapCand(NoValues)}
    \cup {SeqCand(<<>>), SeqCand(<<"news">>),
          SeqCand(<<"news", IdValues>>),
          SeqCand(<<"blog", NoValues>>),
          SeqCand(<<"missing", NoValues>>),
          SeqCand(<<"news", IdValues, "2024-01-01">>),
          SeqCand(<<"index", NoValues, "2024-01-01", "daily">>),
          SeqCand(<<"index", NoValues, "daily", "0.5", "2024-01-01">>),
          SeqCand(<<"index", NoValues, "2024-01-01", "daily", "0.5", "extra">>)}

\* candidates combined freely into longer generator bodies
CoreItems ==
    {StrCand(<<"/about">>), SeqCand(<<"news">>), RaiseItem}

RECURSIVE SeqsUpTo(_, _)
SeqsUpTo(S, n) ==
    IF n = 0 THEN {<<>>}
    ELSE LET shorter == SeqsUpTo(S, n - 1)
         IN  shorter \cup {Append(q, x) : q \in shorter, x \in S}

\* a generator that yields one candidate
SingleBodies == {<<c>> : c \in Candidates}

Bodies == SeqsUpTo(CoreItems, MaxYield) \cup SingleBodies

---------------------------------------------------------------------------
(* The host application: routing table and configuration. *)

\* a URL pattern is a sequence of literal texts and <argument> placeholders
Lit(text) == [arg |-> FALSE, text |-> text]
Arg(name) == [arg |-> TRUE, text |-> name]

Rule(endpoint, methods, arguments, path) ==
    [endpoint |-> endpoint, methods |-> methods, arguments |-> arguments, path |-> path]

BaseRules ==
    <<Rule("static", {"GET", "HEAD", "OPTIONS"}, {"filename"}, <<Lit("/static/"), Arg("filename")>>),
      Rule("index", {"GET", "HEAD", "OPTIONS"}, {}, <<Lit("/")>>),
      Rule("submit", {"POST", "OPTIONS"}, {}, <<Lit("/submit")>>),
      Rule("news", {"GET", "HEAD", "OPTIONS"}, {"id"}, <<Lit("/news/"), Arg("id")>>),
      Rule("blog", {"GET", "HEAD", "OPTIONS"}, {}, <<Lit("/blog")>>)>>

RuleTables == {BaseRules, <<>>}

ConfigKeys ==
    {"SITEMAP_BLUEPRINT", "SITEMAP_BLUEPRINT_URL_PREFIX", "SITEMAP_ENDPOINT_URL",
     "SITEMAP_INCLUDE_RULES_WITHOUT_PARAMS", "SITEMAP_IGNORE_ENDPOINTS",
     "SITEMAP_URL_SCHEME"}

\* flask_sitemap/config.py: the SITEMAP_* defaults
ConfigDefaults ==
    [k \in ConfigKeys |->
        CASE k = "SITEMAP_BLUEPRINT" -> {"flask_sitemap"}
          [] k = "SITEMAP_BLUEPRINT_URL_PREFIX" -> {}
          [] k = "SITEMAP_ENDPOINT_URL" -> {"/sitemap.xml"}
          [] k = "SITEMAP_INCLUDE_RULES_WITHOUT_PARAMS" -> {"True"}
          [] k = "SITEMAP_IGNORE_ENDPOINTS" -> {}
          [] k = "SITEMAP_URL_SCHEME" -> {}]

IgnoreSets == {{}, {"index", "missing", "news"}}

\* a str configuration value as path fragments (None adds nothing)
SetToPath(v) == IF v = {} THEN <<>> ELSE <<Lit(CHOOSE x \in v : TRUE)>>

\* config.get(k): None when the key is not set
ConfigGet(cfg, k) == IF k \in DOMAIN cfg THEN cfg[k] ELSE {}

\* config.setdefault(k, v)
SetDefault(cfg, k, v) == IF k \in DOMAIN cfg THEN cfg ELSE SetItem(cfg, k, v)

---------------------------------------------------------------------------
(* URL resolution: flask.url_for(endpoint, **values) with _external=True. *)

\* the query string: the values no <argument> of the rule consumed
RECURSIVE QueryFragments(_)
QueryFragments(m) ==
    IF m = {} THEN <<>>
    ELSE LET p == CHOOSE q \in m : TRUE
         IN  <<p[1], "=", p[2]>> \o QueryFragments(m \ {p})

ValueOf(values, key) == CHOOSE v \in {p[2] : p \in {q \in values : q[1] = key}} : TRUE

\* the path of the rule with every <argument> replaced by its value
RECURSIVE PathFragments(_, _)
PathFragments(path, values) ==
    IF path = <<>> THEN <<>>
    ELSE <<IF Head(path).arg THEN ValueOf(values, Head(path).text) ELSE Head(path).text>>
             \o PathFragments(Tail(path), values)

UrlValues(values) == {p \in values : p[1] \notin {"_external", "_scheme"}}

SchemeOf(values) ==
    LET s == {p[2] : p \in {q \in values : q[1] = "_scheme"}}
    IN  IF s = {} \/ s = {"None"} THEN "http" ELSE CHOOSE x \in s : TRUE

\* the rules url_for can build for this endpoint with these values
Buildable(rules, endpoint, values) ==
    {i \in 1..Len(rules) :
        /\ rules[i].endpoint = endpoint
        /\ rules[i].arguments \subseteq Keys(UrlValues(values))}

CanBuild(rules, endpoint, values) == Buildable(rules, endpoint, values) # {}

url_for(rules, endpoint, values) ==
    LET i == CHOOSE j \in Buildable(rules, endpoint, values) :
                 \A k \in Buildable(rules, endpoint, values) : j <= k
        query == {p \in UrlValues(values) : p[1] \notin rules[i].arguments}
    IN  <<SchemeOf(values), "://", "localhost">>
            \o PathFragments(rules[i].path, values)
            \o (IF query = {} THEN <<>> ELSE <<"?">> \o QueryFragments(query))

---------------------------------------------------------------------------
(* _routes_without_params, lines 104-108: a generator function. Its body    *)
(* runs one next() at a time. Line 106 calls app.url_map.iter_rules() once,  *)
(* when the loop is entered, and from then on only asks the iterator it got: *)
(* ruleIter holds the rules that iterator has still to give.                 *)

\* what one next() on an inner generator gives: kind is "yield" (cand is the
\* item), "raise" or "stop" (StopIteration); rest is what the generator has
\* still to go through afterwards
GeneratorStep(kind, cand, rest) == [kind |-> kind, cand |-> cand, rest |-> rest]

\* variant: the methods of the rule are not looked at
AnyMethodWithoutParams(rule) == Cardinality(rule.arguments) = 0

\* line 107
IsRouteWithoutParams(rule) ==
    "GET" \in rule.methods /\ Cardinality(rule.arguments) = 0

\* lines 106-107: the loop asks the iterator until a rule passes line 107;
\* the position of that rule in what the iterator has to give, 0 when the
\* iterator runs out first
NextRouteWithoutParams(it) ==
    LET found == {i \in 1..Len(it) : IsRouteWithoutParams(it[i])}
    IN  IF found = {} THEN 0 ELSE CHOOSE i \in found : \A j \in found : i <= j

\* line 106: iter_rules() gives an iterator over the rules of the table
IterRules(rules) == rules

\* one next() of the generator. started: an earlier next() already entered the
\* loop of line 106, and `it` is what its iterator has still to give; the
\* table `rules` is only looked at by the first next(). config[...] raises
\* KeyError when the key was never set.
RoutesWithoutParamsNext(started, cfg, rules, it) ==
    IF ~started /\ "SITEMAP_INCLUDE_RULES_WITHOUT_PARAMS" \notin DOMAIN cfg
    THEN GeneratorStep("raise", RaiseItem, <<>>)
    ELSE IF ~started /\ ~Truthy(cfg["SITEMAP_INCLUDE_RULES_WITHOUT_PARAMS"])
    THEN GeneratorStep("stop", RaiseItem, <<>>)
    ELSE LET source == IF started THEN it ELSE IterRules(rules)
             i == NextRouteWithoutParams(source)
         IN  IF i = 0 THEN GeneratorStep("stop", RaiseItem, <<>>)
             ELSE GeneratorStep("yield", SeqCand(<<source[i].endpoint, NoValues>>),
                                SubSeq(source, i + 1, Len(source)))

\* one next() of a registered generator whose remaining items are `items`
UserGeneratorNext(items) ==
    IF items = <<>> THEN GeneratorStep("stop", RaiseItem, <<>>)
    ELSE IF Head(items) = RaiseItem THEN GeneratorStep("raise", RaiseItem, items)
    ELSE GeneratorStep("yield", Head(items), Tail(items))

---------------------------------------------------------------------------
(* The body of the loop of _generate_all_urls, lines 121-147. *)

\* variant: the record is filled under the key 'url'
StringResultUnderUrl(generated) == SetItem(EmptyDict, "url", generated.str)

\* variant: the string is made absolute
StringResultAbsolute(generated) ==
    SetItem(EmptyDict, "loc", <<"http", "://", "localhost">> \o generated.str)

\* lines 122-123
StringResult(generated) == SetItem(EmptyDict, "loc", generated.str)

\* variant: the name of the view instead of the name of the generator
MappingEndpointOfView(generator) == "sitemap"

\* line 129: generator.__name__
MappingEndpoint(generator) == generator

\* line 132: endpoint, values = generated[0:2] needs exactly two elements
Unpacks(generated) == Len(SliceTo(generated.elems, 2)) = 2

\* lines 135-139
RECURSIVE AssignOptional(_, _, _)
AssignOptional(result, keys, left) ==
    IF keys = <<>> \/ Len(left) = 0 THEN result
    ELSE AssignOptional(SetItem(result, Head(keys), left[1]), Tail(keys),
                        SliceFrom(left, 1))

\* variant: priority and changefreq change places
OptionalFieldsSwapped(generated) ==
    AssignOptional(EmptyDict, <<"lastmod", "priority", "changefreq">>,
                   SliceFrom(generated.elems, 2))

\* lines 134-139
OptionalFields(generated) ==
    AssignOptional(EmptyDict, <<"lastmod", "changefreq", "priority">>,
                   SliceFrom(generated.elems, 2))

\* lines 125-139: the endpoint, the values and the result so far
Endpoint(generator, generated) ==
    IF generated.kind = "map" THEN MappingEndpoint(generator) ELSE generated.elems[1]

Values(generated) ==
    IF generated.kind = "map" THEN generated.map ELSE generated.elems[2]

PartialResult(generated) ==
    IF generated.kind = "map" THEN EmptyDict ELSE OptionalFields(generated)

\* variant: the endpoint is compared with the configured value, not looked up in it
SkippedWhenEqual(endpoint, ig) == ig = {endpoint}

\* line 142
Skipped(endpoint, ig) == endpoint \in ig

Outcome(out, result, err, resolved) ==
    [out |-> out, result |-> result, error |-> err, resolved |-> resolved]

\* one pass of the loop body: "yield" a record, "continue", or "raise"
ProcessGenerated(generator, generated, ig, kw, rules) ==
    IF generated.kind = "str"
    THEN Outcome("yield", StringResult(generated), "none", FALSE)
    ELSE IF generated.kind = "seq" /\ ~Unpacks(generated)
    THEN Outcome("raise", EmptyDict, "ValueError", FALSE)
    ELSE LET endpoint == Endpoint(generator, generated)
             values == DictUpdate(Values(generated), kw)
         IN  IF Skipped(endpoint, ig)
             THEN Outcome("continue", EmptyDict, "none", FALSE)
             ELSE IF ~CanBuild(rules, endpoint, values)
             THEN Outcome("raise", EmptyDict, "BuildError", TRUE)
             ELSE Outcome("yield",
                          SetItem(PartialResult(generated), "loc",
                                  url_for(rules, endpoint, values)),
                          "none", TRUE)

---------------------------------------------------------------------------
(* init_app, lines 55-84. *)

\* the caller of the extension has control: the generator object of
\* _generate_all_urls, if there is one, is not executing
CallerHasControl == pc # "running"

\* lines 59-60
WithExtensionsAttr(ext) == IF ext = "noattr" THEN "empty" ELSE ext

\* line 61: 'sitemap' in app.extensions
AlreadyInitialized(ext) == ext \in {"self", "other"}

RECURSIVE SetDefaults(_, _)
\* lines 66-68
SetDefaults(cfg, keys) ==
    IF keys = {} THEN cfg
    ELSE LET k == CHOOSE x \in keys : TRUE
         IN  SetDefaults(SetDefault(cfg, k, ConfigDefaults[k]), keys \ {k})

\* endpoint of the view `sitemap` inside the blueprint
SitemapEndpoint(blueprint) == blueprint \o ".sitemap"

\* lines 71-84
RegisterBlueprint(cfg, rules) ==
    IF Truthy(ConfigGet(cfg, "SITEMAP_BLUEPRINT"))
    THEN Append(rules,
                Rule(SitemapEndpoint(ConfigStr(cfg["SITEMAP_BLUEPRINT"], "")),
                     {"GET", "HEAD", "OPTIONS"}, {},
                     SetToPath(ConfigGet(cfg, "SITEMAP_BLUEPRINT_URL_PREFIX"))
                         \o SetToPath(ConfigGet(cfg, "SITEMAP_ENDPOINT_URL"))))
    ELSE rules

\* variant: the defaults are set and the blueprint is registered before the
\* check of line 61
init_app_checking_late ==
    /\ CallerHasControl
    /\ self_app' = "app"
    /\ config' = SetDefaults(config, ConfigKeys)
    /\ url_map' = RegisterBlueprint(config', url_map)
    /\ IF AlreadyInitialized(WithExtensionsAttr(extensions))
       THEN /\ lastInit' = "RuntimeError"
            /\ extensions' = WithExtensionsAttr(extensions)
       ELSE /\ lastInit' = "installed"
            /\ extensions' = "self"
    /\ UNCHANGED <<url_generators, registered, body>>
    /\ UNCHANGED runVars

init_app ==
    /\ CallerHasControl
    /\ self_app' = "app"
    /\ IF AlreadyInitialized(WithExtensionsAttr(extensions))
       THEN /\ lastInit' = "RuntimeError"
            /\ extensions' = WithExtensionsAttr(extensions)
            /\ UNCHANGED <<config, url_map>>
       ELSE /\ lastInit' = "installed"
            /\ extensions' = "self"
            /\ config' = SetDefaults(config, ConfigKeys)
            /\ url_map' = RegisterBlueprint(config', url_map)
    /\ UNCHANGED <<url_generators, registered, body>>
    /\ UNCHANGED runVars

---------------------------------------------------------------------------
(* register_generator, lines 91-102. *)

\* variant: the generator is put at the head of the list
PrependGenerator(gens, generator) == <<generator>> \o gens

\* line 100
AppendGenerator(gens, generator) == Append(gens, generator)

register_generator(generator) ==
    /\ CallerHasControl
    /\ Len(registered) < MaxRegister
    /\ url_generators' = AppendGenerator(url_generators, generator)
    /\ registered' = Append(registered, generator)
    /\ UNCHANGED <<self_app, body>>
    /\ UNCHANGED appVars
    /\ UNCHANGED initVars
    /\ UNCHANGED runVars

\* the host application sets app.config['SITEMAP_INCLUDE_RULES_WITHOUT_PARAMS']
configure(v) ==
    /\ CallerHasControl
    /\ ConfigGet(config, "SITEMAP_INCLUDE_RULES_WITHOUT_PARAMS") # v
       \/ "SITEMAP_INCLUDE_RULES_WITHOUT_PARAMS" \notin DOMAIN config
    /\ config' = SetItem(config, "SITEMAP_INCLUDE_RULES_WITHOUT_PARAMS", v)
    /\ UNCHANGED <<extensions, url_map, body>>
    /\ UNCHANGED instVars
    /\ UNCHANGED initVars
    /\ UNCHANGED runVars

\* a route the host application adds after start-up
LateRule == Rule("late", {"GET", "HEAD", "OPTIONS"}, {}, <<Lit("/late")>>)

\* the iterator of line 106 is open: the built-in generator is inside its
\* loop and the run is suspended at line 147
IteratorOpen == pc = "suspended" /\ inner = "looping"

\* the host application calls app.add_url_rule: the rule goes to the end of
\* the table. Whether an iterator that iter_rules() gave earlier sees the new
\* rule is up to the routing table of the host (an iterator over the table's
\* own list does, one over a copy does not): both happen.
add_url_rule ==
    /\ CallerHasControl
    /\ \A i \in 1..Len(url_map) : url_map[i].endpoint # LateRule.endpoint
    /\ url_map' = Append(url_map, LateRule)
    /\ \E live \in BOOLEAN :
          ruleIter' = IF live /\ IteratorOpen THEN Append(ruleIter, LateRule)
                      ELSE ruleIter
    /\ UNCHANGED <<extensions, config, body>>
    /\ UNCHANGED instVars
    /\ UNCHANGED initVars
    /\ UNCHANGED <<pc, ignore, kwargs, genIdx, inner, pending, tableAtIter, pulled,
                   emitted, ctxHeld, acquires, resolutions, error>>

---------------------------------------------------------------------------
(* _generate_all_urls, lines 110-147: the generator object, step by step.  *)
(* pc: "idle" (no generator object), "running" (inside the with block),    *)
(* "suspended" (at the yield of line 147), "done" (StopIteration),         *)
(* "failed" (an exception left the generator), "closed" (GeneratorExit).   *)

\* line 118: entering / leaving `with self.app.test_request_context()`
EnterContext(held) == held + 1
ExitContext(held) == held - 1

\* line 120: generator() makes a generator object; nothing of its body runs yet
CallGenerator(generator, bodies) ==
    IF generator = DefaultGenerator
    THEN [inner |-> "created", pending |-> <<>>]
    ELSE [inner |-> "user", pending |-> bodies[generator]]

\* lines 113-116
Kwargs(cfg) ==
    {<<"_external", "True">>,
     <<"_scheme", ConfigStr(ConfigGet(cfg, "SITEMAP_URL_SCHEME"), "None")>>}

InWith == pc \in {"running", "suspended"}

\* line 120: what the next next() on the inner generator object gives, with
\* the configuration and the rules as they are now
InnerNext ==
    CASE inner = "user" -> UserGeneratorNext(pending)
      [] inner \in {"created", "looping"} ->
            RoutesWithoutParamsNext(inner = "looping", config, url_map, ruleIter)
      [] OTHER -> GeneratorStep("stop", RaiseItem, <<>>)

\* the inner generator object after the next() that gave InnerNext
InnerAdvances ==
    /\ inner' = IF inner = "created" THEN "looping" ELSE inner
    /\ pending' = IF inner = "user" THEN InnerNext.rest ELSE pending
    /\ ruleIter' = IF inner = "user" THEN ruleIter ELSE InnerNext.rest
    /\ tableAtIter' = IF inner = "created" THEN url_map ELSE tableAtIter

\* lines 112-118 fail before the with block: self.app was never assigned
\* (AttributeError) or the configuration key is not set (KeyError)
StartRaises ==
    /\ pc = "idle"
    /\ self_app = "unset" \/ "SITEMAP_IGNORE_ENDPOINTS" \notin DOMAIN config
    /\ pc' = "failed"
    /\ error' = IF self_app = "unset" THEN "AttributeError" ELSE "KeyError"
    /\ UNCHANGED <<ignore, kwargs, genIdx, inner, pending, ruleIter, tableAtIter, pulled,
                   emitted, ctxHeld, acquires, resolutions>>
    /\ UNCHANGED <<body, appVars, instVars, initVars>>

\* lines 112-118
StartRun ==
    /\ pc = "idle"
    /\ self_app = "app"
    /\ "SITEMAP_IGNORE_ENDPOINTS" \in DOMAIN config
    /\ ignore' = config["SITEMAP_IGNORE_ENDPOINTS"]
    /\ kwargs' = Kwargs(config)
    /\ ctxHeld' = EnterContext(ctxHeld)
    /\ acquires' = acquires + 1
    /\ genIdx' = 0
    /\ pc' = "running"
    /\ UNCHANGED <<inner, pending, ruleIter, tableAtIter, pulled, emitted, resolutions, error>>
    /\ UNCHANGED <<body, appVars, instVars, initVars>>

\* lines 119-120: the inner generator is exhausted (or there is none yet);
\* the outer loop takes the next entry of the list as it is now and calls it
NextGenerator ==
    /\ InWith
    /\ InnerNext.kind = "stop"
    /\ genIdx < Len(url_generators)
    /\ genIdx' = genIdx + 1
    /\ inner' = CallGenerator(url_generators[genIdx + 1], body).inner
    /\ pending' = CallGenerator(url_generators[genIdx + 1], body).pending
    /\ ruleIter' = <<>>
    /\ UNCHANGED tableAtIter
    /\ pc' = "running"
    /\ UNCHANGED <<ignore, kwargs, pulled, emitted, ctxHeld, acquires,
                   resolutions, error>>
    /\ UNCHANGED <<body, appVars, instVars, initVars>>

\* line 119 runs out of generators, the with block of line 118 is left
FinishRun ==
    /\ InWith
    /\ InnerNext.kind = "stop"
    /\ genIdx >= Len(url_generators)
    /\ ctxHeld' = ExitContext(ctxHeld)
    /\ pc' = "done"
    /\ inner' = "none"
    /\ ruleIter' = <<>>
    /\ UNCHANGED tableAtIter
    /\ UNCHANGED <<ignore, kwargs, genIdx, pending, pulled, emitted, acquires,
                   resolutions, error>>
    /\ UNCHANGED <<body, appVars, instVars, initVars>>

\* line 120: the inner generator raises; the exception leaves the with block
GeneratorRaises ==
    /\ InWith
    /\ InnerNext.kind = "raise"
    /\ ctxHeld' = ExitContext(ctxHeld)
    /\ pc' = "failed"
    /\ error' = "raised by generator"
    /\ UNCHANGED <<ignore, kwargs, genIdx, inner, pending, ruleIter, tableAtIter, pulled,
                   emitted, acquires, resolutions>>
    /\ UNCHANGED <<body, appVars, instVars, initVars>>

\* the outcome of the loop body for the candidate the inner generator yields next
NextOutcome ==
    ProcessGenerated(url_generators[genIdx], InnerNext.cand, ignore, kwargs, url_map)

\* line 120: the inner generator yields `generated`
Pulls ==
    /\ InWith
    /\ InnerNext.kind = "yield"
    /\ InnerAdvances
    /\ pulled' = Append(pulled, [gen |-> genIdx, cand |-> InnerNext.cand])
    /\ resolutions' = IF NextOutcome.resolved THEN resolutions + 1 ELSE resolutions

\* lines 121-147: the candidate becomes a record, yielded at line 147
YieldRecord ==
    /\ Pulls
    /\ NextOutcome.out = "yield"
    /\ emitted' = Append(emitted, NextOutcome.result)
    /\ pc' = "suspended"
    /\ UNCHANGED <<ignore, kwargs, genIdx, ctxHeld, acquires, error>>
    /\ UNCHANGED <<body, appVars, instVars, initVars>>

\* lines 142-143: continue
SkipCandidate ==
    /\ Pulls
    /\ NextOutcome.out = "continue"
    /\ pc' = "running"
    /\ UNCHANGED <<ignore, kwargs, genIdx, emitted, ctxHeld, acquires, error>>
    /\ UNCHANGED <<body, appVars, instVars, initVars>>

\* variant: no with block, the context is popped at the end of the loops only
CandidateRaisesHoldingContext ==
    /\ Pulls
    /\ NextOutcome.out = "raise"
    /\ pc' = "failed"
    /\ error' = NextOutcome.error
    /\ UNCHANGED <<ignore, kwargs, genIdx, emitted, ctxHeld, acquires>>
    /\ UNCHANGED <<body, appVars, instVars, initVars>>

\* variant: the error of a candidate is caught and the loop goes on
CandidateSwallowed ==
    /\ Pulls
    /\ NextOutcome.out = "raise"
    /\ pc' = "running"
    /\ UNCHANGED <<ignore, kwargs, genIdx, emitted, ctxHeld, acquires, error>>
    /\ UNCHANGED <<body, appVars, instVars, initVars>>

\* line 132 (ValueError) or line 146 (BuildError): the exception leaves the
\* loops and the with block
CandidateRaises ==
    /\ Pulls
    /\ NextOutcome.out = "raise"
    /\ ctxHeld' = ExitContext(ctxHeld)
    /\ pc' = "failed"
    /\ error' = NextOutcome.error
    /\ UNCHANGED <<ignore, kwargs, genIdx, emitted, acquires>>
    /\ UNCHANGED <<body, appVars, instVars, initVars>>

\* the consumer closes the generator object suspended at line 147:
\* GeneratorExit leaves the with block
CloseRun ==
    /\ pc = "suspended"
    /\ ctxHeld' = ExitContext(ctxHeld)
    /\ pc' = "closed"
    /\ UNCHANGED <<ignore, kwargs, genIdx, inner, pending, ruleIter, tableAtIter, pulled,
                   emitted, acquires, resolutions, error>>
    /\ UNCHANGED <<body, appVars, instVars, initVars>>

NoRun ==
    /\ pc = "idle"
    /\ ignore = {}
    /\ kwargs = {}
    /\ genIdx = 0
    /\ inner = "none"
    /\ pending = <<>>
    /\ ruleIter = <<>>
    /\ tableAtIter = <<>>
    /\ pulled = <<>>
    /\ emitted = <<>>
    /\ ctxHeld = 0
    /\ acquires = 0
    /\ resolutions = 0
    /\ error = "none"

\* the generator object is dropped; the next call of _generate_all_urls
\* starts from scratch
DropRun ==
    /\ pc \in {"done", "failed", "closed"}
    /\ pc' = "idle"
    /\ ignore' = {}
    /\ kwargs' = {}
    /\ genIdx' = 0
    /\ inner' = "none"
    /\ pending' = <<>>
    /\ ruleIter' = <<>>
    /\ tableAtIter' = <<>>
    /\ pulled' = <<>>
    /\ emitted' = <<>>
    /\ ctxHeld' = 0
    /\ acquires' = 0
    /\ resolutions' = 0
    /\ error' = "none"
    /\ UNCHANGED <<body, appVars, instVars, initVars>>

---------------------------------------------------------------------------
(* Initial states: a constructed Sitemap() (lines 48-50) and a host        *)
(* application that has not seen it yet.                                   *)

\* line 50
InitialGenerators == <<DefaultGenerator>>

FixedBody == <<MapCand(IdValues), StrCand(<<"/about">>)>>
BlogBody == <<SeqCand(<<"news", IdValues>>), StrCand(<<"/blog">>)>>

\* what the application configured before the extension was initialised
PartialConfigs(K) ==
    UNION {[D -> {{}, {"True"}, {"news"}, {"https"}, {"/map.xml"}, {"seo"}}] : D \in SUBSET K}

UserConfigs ==
    {c \in PartialConfigs({"SITEMAP_INCLUDE_RULES_WITHOUT_PARAMS",
                           "SITEMAP_IGNORE_ENDPOINTS", "SITEMAP_BLUEPRINT",
                           "SITEMAP_URL_SCHEME"}) :
        \A k \in DOMAIN c :
            c[k] \in CASE k = "SITEMAP_INCLUDE_RULES_WITHOUT_PARAMS" -> {{}}
                       [] k = "SITEMAP_IGNORE_ENDPOINTS" -> {{"news"}}
                       [] k = "SITEMAP_BLUEPRINT" -> {{}, {"seo"}}
                       [] k = "SITEMAP_URL_SCHEME" -> {{"https"}}}

CollectConfigs ==
    {[k \in {"SITEMAP_INCLUDE_RULES_WITHOUT_PARAMS", "SITEMAP_IGNORE_ENDPOINTS"} |->
        IF k = "SITEMAP_IGNORE_ENDPOINTS" THEN ig ELSE {"True"}] :
        ig \in IgnoreSets}

InitCommon ==
    /\ self_app = "unset"
    /\ url_generators = InitialGenerators
    /\ registered = <<>>
    /\ lastInit = "none"
    /\ NoRun

\* every way of setting up the application, with two fixed generators
InitSetup ==
    /\ InitCommon
    /\ extensions \in {"noattr", "empty", "other"}
    /\ config \in UserConfigs
    /\ url_map \in RuleTables
    /\ body = [g \in UserGenerators |-> IF g = "news" THEN FixedBody ELSE BlogBody]

\* every generator body, on a Flask application with the usual routes; with
\* endpoints ignored, every generator of one candidate
InitCollect ==
    /\ InitCommon
    /\ extensions = "empty"
    /\ config \in CollectConfigs
    /\ url_map = BaseRules
    /\ \E b \in Bodies :
          /\ config["SITEMAP_IGNORE_ENDPOINTS"] # {} => b \in SingleBodies
          /\ body = [g \in UserGenerators |-> IF g = "news" THEN b ELSE BlogBody]

Init == InitSetup \/ InitCollect

Next ==
    \/ init_app
    \/ \E g \in UserGenerators : register_generator(g)
    \/ \E v \in {{}, {"True"}} : configure(v)
    \/ add_url_rule
    \/ StartRaises
    \/ StartRun
    \/ NextGenerator
    \/ FinishRun
    \/ GeneratorRaises
    \/ YieldRecord
    \/ SkipCandidate
    \/ CandidateRaises
    \/ CloseRun
    \/ DropRun

Spec == Init /\ [][Next]_vars

---------------------------------------------------------------------------
(* Vocabulary of the properties. *)

\* this step pulled one more candidate from a generator
PullStep == Len(pulled') = Len(pulled) + 1
\* the candidate that step pulled, and the name of the generator it came from
Pulled == pulled'[Len(pulled')].cand
PulledFrom == url_generators[pulled'[Len(pulled')].gen]
\* this step yielded one more record to the consumer
EmitStep == Len(emitted') = Len(emitted) + 1
Emitted == emitted'[Len(emitted')]

\* the ignore set as configured
ConfiguredIgnore == ConfigGet(config, "SITEMAP_IGNORE_ENDPOINTS")

\* the endpoint a mapping or tuple candidate names
NamedEndpoint(generator, cand) ==
    IF cand.kind = "map" THEN generator ELSE cand.elems[1]

\* the URL the resolution service gives for endpoint and values in this run
Resolved(endpoint, values) == url_for(url_map, endpoint, DictUpdate(values, Kwargs(config)))
Resolvable(endpoint, values) == CanBuild(url_map, endpoint, DictUpdate(values, Kwargs(config)))

OnlyLoc(loc) == [k \in {"loc"} |-> loc]

---------------------------------------------------------------------------
\* the candidates the run pulled from entry k of the list, in the order pulled
RECURSIVE PulledAt(_, _)
PulledAt(ps, k) ==
    IF ps = <<>> THEN <<>>
    ELSE (IF Head(ps).gen = k THEN <<Head(ps).cand>> ELSE <<>>) \o PulledAt(Tail(ps), k)

\* the records of the pulled candidates that give one, in the order pulled
RECURSIVE RecordsOf(_)
RecordsOf(ps) ==
    IF ps = <<>> THEN <<>>
    ELSE LET o == ProcessGenerated(url_generators[Head(ps).gen], Head(ps).cand,
                                   ignore, kwargs, url_map)
         IN  (IF o.out = "yield" THEN <<o.result>> ELSE <<>>) \o RecordsOf(Tail(ps))

IsPrefix(s, t) == Len(s) <= Len(t) /\ SubSeq(t, 1, Len(s)) = s

\* C1: the list of generators is the built-in generator followed by the
\* registered generators in registration order (nothing reordered, nothing
\* deduplicated). A collection run goes through the list in that order: the
\* candidates it pulled come from entries of non-decreasing position, from
\* each registered generator in the order that generator yields them and all
\* of them once the run has moved past it; the records emitted are those of
\* the pulled candidates, in the order pulled; and a run finishes only after
\* the last entry of the list.
OutputInRegistrationOrder ==
    /\ [](/\ url_generators = <<DefaultGenerator>> \o registered
          /\ \A i \in 1..Len(pulled) : pulled[i].gen <= genIdx
          /\ \A i \in 1..(Len(pulled) - 1) : pulled[i].gen <= pulled[i + 1].gen
          /\ \A k \in 2..Len(url_generators) :
                LET got == PulledAt(pulled, k)
                IN  /\ IsPrefix(got, body[url_generators[k]])
                    /\ (k < genIdx \/ (k = genIdx /\ pc = "done")) =>
                           got = body[url_generators[k]]
          /\ Len(emitted) <= Len(pulled))
    /\ [][IF PullStep
          THEN emitted' = emitted \o RecordsOf(<<pulled'[Len(pulled')]>>)
          ELSE emitted' = emitted \/ (pulled' = <<>> /\ emitted' = <<>>)]_vars
    /\ [][(pc # "done" /\ pc' = "done") => genIdx = Len(url_generators)]_vars

\* blog was registered before news: after the three routes of the built-in
\* generator come the two records of blog, then the two of news
OutputInRegistrationOrderWitness ==
    /\ pc = "done"
    /\ registered = <<"blog", "news">>
    /\ body["news"] = <<StrCand(<<"/about">>), StrCand(<<"/about">>)>>
    /\ Len(emitted) = 7
    /\ emitted[4] = OnlyLoc(<<"http", "://", "localhost", "/news/", "3">>)
    /\ emitted[5] = OnlyLoc(<<"/blog">>)
    /\ emitted[6] = OnlyLoc(<<"/about">>)
    /\ emitted[7] = OnlyLoc(<<"/about">>)

---------------------------------------------------------------------------
\* the step pulled a candidate that names an endpoint of the configured ignore set
IgnoredEndpointCase ==
    /\ PullStep
    /\ Pulled.kind = "map" \/ (Pulled.kind = "seq" /\ Len(Pulled.elems) >= 2)
    /\ NamedEndpoint(PulledFrom, Pulled) \in ConfiguredIgnore

\* C2: a candidate that names an endpoint of the configured ignore set (a tuple
\* with that endpoint, a mapping from a generator of that name, a route of the
\* built-in generator) is skipped: pulling it emits no record, resolves no URL
\* and does not end the run.
IgnoredNeverEmitted ==
    [][IgnoredEndpointCase =>
           /\ emitted' = emitted
           /\ resolutions' = resolutions
           /\ pc' = "running"]_vars

\* all three kinds of ignored candidate were pulled in one run and nothing came
\* of them
IgnoredNeverEmittedWitness ==
    /\ pc = "done"
    /\ ConfiguredIgnore = {"index", "missing", "news"}
    /\ \E i, j, k \in 1..Len(pulled) :
          /\ pulled[i].gen = 1 /\ pulled[i].cand = SeqCand(<<"index", NoValues>>)
          /\ pulled[j].cand = MapCand(IdValues) /\ url_generators[pulled[j].gen] = "news"
          /\ pulled[k].cand = SeqCand(<<"news", IdValues>>)
    /\ Len(emitted) = 3

---------------------------------------------------------------------------
\* The candidates behind the emitted records: the pulled candidates that were
\* neither skipped nor the one that ended the run.
RECURSIVE Sources(_)
Sources(ps) ==
    IF ps = <<>> THEN <<>>
    ELSE LET c == Head(ps).cand
             g == url_generators[Head(ps).gen]
             dropped ==
                 \/ c.kind = "seq" /\ Len(c.elems) < 2
                 \/ c.kind # "str" /\ NamedEndpoint(g, c) \in ConfiguredIgnore
                 \/ c.kind # "str" /\ ~Resolvable(NamedEndpoint(g, c),
                                                 IF c.kind = "map" THEN c.map ELSE c.elems[2])
         IN  (IF dropped THEN <<>> ELSE <<Head(ps)>>) \o Sources(Tail(ps))

\* C3 as stated: every emitted record has a non-empty loc.
EveryLocNonEmpty ==
    \A i \in 1..Len(emitted) : "loc" \in DOMAIN emitted[i] /\ emitted[i].loc # <<>>

\* C3, amended: every emitted record has a loc, and the loc is empty exactly
\* when the record comes from a string candidate that is the empty string.
LocEmptyOnlyForEmptyString ==
    LET sources == Sources(pulled)
    IN  /\ Len(sources) = Len(emitted)
        /\ \A i \in 1..Len(emitted) :
              /\ "loc" \in DOMAIN emitted[i]
              /\ emitted[i].loc = <<>> <=> sources[i].cand = StrCand(<<>>)

LocEmptyOnlyForEmptyStringWitness ==
    /\ pc = "done"
    /\ \E i \in 1..Len(emitted) : emitted[i].loc = <<>>
    /\ \E i \in 1..Len(emitted) : Sources(pulled)[i].cand.kind = "seq"

---------------------------------------------------------------------------
\* C4: init_app on an application that already has 'sitemap' in its extensions
\* raises RuntimeError and leaves extensions, configuration and routes of the
\* application as they were.
SecondInitRejected ==
    [][(lastInit' # lastInit /\ extensions \in {"self", "other"}) =>
           /\ lastInit' = "RuntimeError"
           /\ extensions' = extensions
           /\ config' = config
           /\ url_map' = url_map]_vars

\* the rejected call found an application some defaults of which were not set
SecondInitRejectedWitness ==
    /\ lastInit = "RuntimeError"
    /\ extensions = "other"
    /\ DOMAIN config # ConfigKeys
    /\ self_app = "app"

---------------------------------------------------------------------------
\* C5: pulling a string candidate emits the record {loc: the string} with no
\* other field and resolves no URL, whatever the ignore set holds.
StringVerbatim ==
    [][(PullStep /\ Pulled.kind = "str") =>
           /\ emitted' = Append(emitted, OnlyLoc(Pulled.str))
           /\ resolutions' = resolutions
           /\ pc' = "suspended"]_vars

\* the string "news" from the generator news, with news ignored
StringVerbatimWitness ==
    /\ InWith
    /\ "news" \in ConfiguredIgnore
    /\ pulled # <<>>
    /\ pulled[Len(pulled)].cand = StrCand(<<"news">>)
    /\ url_generators[pulled[Len(pulled)].gen] = "news"
    /\ emitted # <<>>
    /\ emitted[Len(emitted)] = OnlyLoc(<<"news">>)

---------------------------------------------------------------------------
\* what the loop body makes of the tuple (endpoint, m) yielded by the generator h
TupleOutcome(h, endpoint, m) ==
    ProcessGenerated(h, SeqCand(<<endpoint, m>>), ignore, kwargs, url_map)

StepHasOutcome(o) ==
    CASE o.out = "yield" -> emitted' = Append(emitted, o.result) /\ pc' = "suspended"
      [] o.out = "continue" -> emitted' = emitted /\ pc' = "running"
      [] o.out = "raise" -> emitted' = emitted /\ pc' = "failed" /\ error' = o.error

\* C6: pulling a mapping m from a generator named g has the outcome that the
\* tuple (g, m) has when any generator yields it: no record when g is ignored,
\* otherwise the record {loc: URL of endpoint g with values m} and nothing else
\* (or the resolution error of that endpoint).
MappingIsTupleWithOwnName ==
    [][(PullStep /\ Pulled.kind = "map") =>
           /\ \A h \in UserGenerators \cup {DefaultGenerator} :
                 StepHasOutcome(TupleOutcome(h, PulledFrom, Pulled.map))
           /\ PulledFrom \in ConfiguredIgnore => emitted' = emitted /\ pc' = "running"
           /\ (PulledFrom \notin ConfiguredIgnore /\ Resolvable(PulledFrom, Pulled.map)) =>
                 emitted' = Append(emitted, OnlyLoc(Resolved(PulledFrom, Pulled.map)))]_vars

\* one run emitted the same record for the mapping {id: 3} of the generator
\* news and for the tuple ('news', {id: 3}) of the generator blog
MappingIsTupleWithOwnNameWitness ==
    /\ pc = "done"
    /\ Len(Sources(pulled)) = Len(emitted)
    /\ \E i, j \in 1..Len(emitted) :
          /\ Sources(pulled)[i].cand = MapCand(IdValues)
          /\ url_generators[Sources(pulled)[i].gen] = "news"
          /\ Sources(pulled)[j].cand = SeqCand(<<"news", IdValues>>)
          /\ url_generators[Sources(pulled)[j].gen] = "blog"
          /\ emitted[i] = emitted[j]
          /\ emitted[i] = OnlyLoc(<<"http", "://", "localhost", "/news/", "3">>)

---------------------------------------------------------------------------
\* the optional fields, in the order of the tuple
FieldNames == <<"lastmod", "changefreq", "priority">>

FieldCount(n) == IF n - 2 > Len(FieldNames) THEN Len(FieldNames) ELSE n - 2

TupleCase ==
    /\ PullStep
    /\ Pulled.kind = "seq"
    /\ Len(Pulled.elems) >= 2
    /\ Pulled.elems[1] \notin ConfiguredIgnore
    /\ Resolvable(Pulled.elems[1], Pulled.elems[2])

\* C7: the record emitted for a tuple of n >= 2 elements holds loc and the
\* first min(n - 2, 3) of lastmod, changefreq, priority, equal to elements
\* 3, 4, 5 of the tuple; a sixth element is ignored; a tuple of 2 elements
\* gives a record with loc alone.
TupleFields ==
    [][TupleCase =>
           /\ EmitStep
           /\ DOMAIN Emitted =
                  {"loc"} \cup {FieldNames[k] : k \in 1..FieldCount(Len(Pulled.elems))}
           /\ Emitted.loc = Resolved(Pulled.elems[1], Pulled.elems[2])
           /\ \A k \in 1..FieldCount(Len(Pulled.elems)) :
                  Emitted[FieldNames[k]] = Pulled.elems[k + 2]]_vars

\* the tuple of six elements gave a record of four fields
TupleFieldsWitness ==
    /\ pc = "done"
    /\ pulled # <<>>
    /\ Len(pulled[Len(pulled)].cand.elems) = 6
    /\ emitted # <<>>
    /\ emitted[Len(emitted)] =
           [loc |-> <<"http", "://", "localhost", "/">>, lastmod |-> "2024-01-01",
            changefreq |-> "daily", priority |-> "0.5"]

---------------------------------------------------------------------------
\* (endpoint, {}) for each rule of a table that accepts GET and has no
\* arguments, in the order of the table
RoutesOf(rules) ==
    LET paramless == SelectSeq(rules, LAMBDA r : "GET" \in r.methods /\ r.arguments = {})
    IN  [k \in 1..Len(paramless) |-> SeqCand(<<paramless[k].endpoint, {}>>)]

\* those of the routing table as it is now
ParamlessGetRoutes == RoutesOf(url_map)

SettingOn == Truthy(ConfigGet(config, "SITEMAP_INCLUDE_RULES_WITHOUT_PARAMS"))

\* the run moves past the built-in generator, the first entry of the list
DefaultGeneratorEnds ==
    /\ InWith
    /\ genIdx = 1
    /\ genIdx' = 2 \/ pc' = "done"

\* C8: the built-in generator yields its first candidate only if the setting
\* is on at that moment, the moment the run first asks it for one, not when
\* the extension was constructed or initialised; if the setting is off then,
\* it yields nothing. When it does yield, by the time the run moves past it,
\* it has yielded (endpoint, {}) for each rule that accepts GET and has no
\* arguments of the routing table it asked for its rules, in the order of the
\* table, and nothing that is not such a rule of the table; rules the host
\* added after that moment may or may not be among them, and with no such
\* rule the candidates are exactly the qualifying rules of the table.
DefaultGeneratorExact ==
    /\ [][(PullStep /\ genIdx = 1 /\ PulledAt(pulled, 1) = <<>>) => SettingOn]_vars
    /\ [][(DefaultGeneratorEnds /\ (SettingOn \/ PulledAt(pulled, 1) # <<>>)) =>
              LET got == PulledAt(pulled, 1)
                  table == IF got = <<>> THEN url_map ELSE tableAtIter
              IN  /\ IsPrefix(RoutesOf(table), got)
                  /\ IsPrefix(got, ParamlessGetRoutes)
                  /\ url_map = table => got = ParamlessGetRoutes]_vars
    /\ [][(PullStep /\ genIdx = 1) =>
              \E k \in 1..Len(ParamlessGetRoutes) : Pulled = ParamlessGetRoutes[k]]_vars

\* the setting is on and the run pulled the three routes without parameters,
\* the sitemap route that init_app registered among them
DefaultGeneratorExactWitness ==
    /\ pc = "done"
    /\ lastInit = "installed"
    /\ Truthy(ConfigGet(config, "SITEMAP_INCLUDE_RULES_WITHOUT_PARAMS"))
    /\ ConfigGet(config, "SITEMAP_BLUEPRINT") = {"seo"}
    /\ Len(pulled) >= 3
    /\ \A k \in 1..3 : pulled[k].gen = 1
    /\ {pulled[k].cand.elems[1] : k \in 1..3} = {"index", "blog", "seo.sitemap"}

---------------------------------------------------------------------------
\* errors raised before the with block is entered
StartErrors == {"AttributeError", "KeyError"}

\* C9: a run enters the request context at most once, holds it exactly while
\* it is inside the with block and has released it however the run ended; a
\* run that got as far as the with block entered it exactly once; and url_for
\* is only called while the context is held.
ContextScoped ==
    /\ [](/\ acquires <= 1
          /\ ctxHeld = (IF InWith THEN 1 ELSE 0)
          /\ (pc \in {"done", "closed"} \/ InWith) => acquires = 1
          /\ pc = "failed" => (acquires = 1 <=> error \notin StartErrors))
    /\ [][resolutions' > resolutions => (ctxHeld = 1 /\ InWith)]_vars

\* resolution failed after two records; the context was entered once and is
\* released
ContextScopedWitness ==
    /\ pc = "failed"
    /\ error = "BuildError"
    /\ acquires = 1
    /\ ctxHeld = 0
    /\ resolutions = 3

---------------------------------------------------------------------------
\* the step pulled a candidate that cannot be unpacked or resolved
FailingCase ==
    /\ PullStep
    /\ \/ Pulled.kind = "seq" /\ Len(Pulled.elems) < 2
       \/ /\ Pulled.kind = "map" \/ (Pulled.kind = "seq" /\ Len(Pulled.elems) >= 2)
          /\ NamedEndpoint(PulledFrom, Pulled) \notin ConfiguredIgnore
          /\ ~Resolvable(NamedEndpoint(PulledFrom, Pulled),
                         IF Pulled.kind = "map" THEN Pulled.map ELSE Pulled.elems[2])

ExpectedError ==
    IF Pulled.kind = "seq" /\ Len(Pulled.elems) < 2 THEN "ValueError" ELSE "BuildError"

\* C10: a generator that raises, a tuple of fewer than two elements and a
\* resolution error each end the run at once with that error: the failing
\* candidate emits no record, and the failed run does nothing more (nothing is
\* pulled or emitted, its state stays as it is) until it is dropped. A
\* candidate with an ignored endpoint is skipped and never ends the run.
FailureAborts ==
    /\ [][FailingCase =>
              pc' = "failed" /\ error' = ExpectedError /\ emitted' = emitted]_vars
    /\ [][(InWith /\ InnerNext.kind = "raise" /\ runVars' # runVars /\ pc' # "closed") =>
              pc' = "failed" /\ error' = "raised by generator" /\ UNCHANGED <<emitted, pulled>>]_vars
    /\ [][pc = "failed" => pc' = "idle" \/ UNCHANGED runVars]_vars
    /\ [][IgnoredEndpointCase => pc' = "running" /\ error' = "none"]_vars

\* a tuple of one element ended the run after a record was emitted; a later
\* candidate and a later generator were never processed
FailureAbortsWitness ==
    /\ pc = "failed"
    /\ error = "ValueError"
    /\ emitted # <<>>
    /\ pending = <<StrCand(<<"/about">>)>>
    /\ genIdx < Len(url_generators)

====
